---- MODULE Spec2Model ----
(***************************************************************************)
(* A model of the two programs of the repository:                          *)
(*   - fetchDeploymentStatus, the paginated search for the nth deployment  *)
(*     (specification SpecFetch);                                          *)
(*   - run, the release pipeline gitLog -> processCommits -> createRelease *)
(*     (specification SpecRun).                                            *)
(* JavaScript's undefined/null is the empty tuple None, a present value x  *)
(* is the one-element tuple Some(x).                                       *)
(***************************************************************************)
EXTENDS Integers, Sequences, FiniteSets, TLC

None == <<>>

Some(x) == <<x>>

\* ------------------------------------------------------------------------
\* Bounds of the model
\* ------------------------------------------------------------------------

\* the remote holds at most this many deployments, over all pages
MaxDeployments == 3

\* the remote answers at most this many page requests with hasNextPage
MaxPages == 2

\* the largest ordinal asked for
MaxNth == 3

\* the range query prints at most this many commits
MaxCommits == 2

\* commitsToMetadata is given at most this many commits
MaxList == 3

\* listDeployments answers with at most this many deployments
MaxListing == 3

\* ------------------------------------------------------------------------
\* fetchDeploymentStatus: values
\* ------------------------------------------------------------------------

PageSize == 20

\* "active" stands for every state that is neither token, case variants included
DeploymentStates == {"ACTIVE", "INACTIVE", "active"}

EndCursors == {"", "cursor"}

NthValues == (0 - 1)..MaxNth

owner == "octocat"

repo == "Hello-World"

environment == "production-my-app"

VARIABLES
    nth,            \* parameter of fetchDeploymentStatus
    deploymentId,   \* let deploymentId
    cursor,         \* let cursor
    hasNextPage,    \* let hasNextPage = true
    found,          \* let found = 0
    deployments,    \* the page being scanned: [nodes, pageInfo], None before the first
    filtered,       \* deployments.nodes.filter(...) of the page being scanned
    idx,            \* position of the for..of iterator in filtered
    fpc,            \* control point: "while", "delay", "fetch", "for", "done", "failed"
    delayed,        \* whether the delay ran in this iteration of the while loop
    ret,            \* the value returned (meaningful when fpc = "done")
    requests,       \* every graphql request issued, in order
    pages,          \* every page the remote returned, in order
    rejection,      \* what a graphql request rejected with, None if none did
    fthrown         \* what fetchDeploymentStatus rejected with, None if it did not

fetchVars == <<nth, deploymentId, cursor, hasNextPage, found, deployments,
               filtered, idx, fpc, delayed, ret, requests, pages, rejection,
               fthrown>>

VARIABLES
    branch,          \* core.getInput('branch')
    from,            \* core.getInput('from')
    rpc,             \* control point of run
    originalBranch,  \* let originalBranch = ''
    head,            \* the ref the working tree is on
    printed,         \* the commits the range query printed, newest first
    commits,         \* const commits = await gitLog(from, to)
    relevantCommits, \* const relevantCommits: GitLog[] = [] of processCommits
    ci,              \* position of the for..of iterator of processCommits in commits
    outcomes,        \* per commit handled by processCommits: what the externals did
    procState,       \* processCommits: "idle", "running", "returned", "threw"
    thrown,          \* the value in flight to the catch block, None if none
    outputs,         \* the core.setOutput calls, in order
    failures,        \* the core.setFailed calls, in order
    warnings,        \* the core.warning calls, in order
    createCalls,     \* the createRelease calls, in order
    release,         \* const release = await createRelease(...)
    execLog,         \* every exec call, in order, with its exit code
    rejected         \* whether the promise of run rejected

runVars == <<branch, from, rpc, originalBranch, head, printed, commits,
             relevantCommits, ci, outcomes, procState, thrown, outputs,
             failures, warnings, createCalls, release, execLog, rejected>>

VARIABLES
    plist,           \* commits: GitLog[] given to commitsToMetadata
    pextract,        \* extractCommitMetadata(c.message) for each commit of plist
    pmeta,           \* the value commitsToMetadata returned
    pgroups,         \* the value groupCommits returned, properties in insertion order
    pbody,           \* releaseBody as run builds it from the grouping
    ppc              \* control point: "start", "parsed", "grouped", "built"

parseVars == <<plist, pextract, pmeta, pgroups, pbody, ppc>>

VARIABLES
    deploymentStatuses, \* what listDeployments answers: [ok, data, error]
    contextSha,         \* context.sha
    previousSha,        \* the value releaseSha returned
    shaThrown,          \* the error releaseSha rejected with
    spc                 \* control point: "list", "done", "failed"

shaVars == <<deploymentStatuses, contextSha, previousSha, shaThrown, spc>>

VARIABLES
    qcommits,        \* commits: GitLog[] given to processCommits
    qi,              \* position of the for..of iterator in qcommits
    qpc,             \* control point: "loop", "checkout", "query", "turbo", "returned", "threw"
    inflight,        \* the exec calls started and not yet settled
    events,          \* the starts and ends of the exec calls, in order
    qrelevant,       \* const relevantCommits: GitLog[] = []
    qthrown          \* the error processCommits rejected with

procVars == <<qcommits, qi, qpc, inflight, events, qrelevant, qthrown>>

vars == <<fetchVars, runVars, parseVars, shaVars, procVars>>

\* the filter predicate of the for..of loop
qualifies(d) == d.state = "ACTIVE" \/ d.state = "INACTIVE"

\* a mutant of BreakScan: the scan never stops early
BreakScan_Never(f, n) == FALSE

\* a mutant of BreakScan: the target is taken as reached one node early
BreakScan_OneEarly(f, n) == f = n - 1

\* if (found === nth) break
BreakScan(f, n) == f = n

\* if (cursor): undefined and the empty string are falsy
Truthy(c) == c # None /\ c[1] # ""

\* a mutant of AdvanceHasNextPage: the loop ends after any page
AdvanceHasNextPage_Never(page) == FALSE

\* hasNextPage = deployments.pageInfo.hasNextPage
AdvanceHasNextPage(page) == page.pageInfo.hasNextPage

\* a mutant of AdvanceCursor: the cursor of the previous request is kept
AdvanceCursor_Stale(c, page) == c

\* cursor = deployments.pageInfo.endCursor
AdvanceCursor(c, page) == Some(page.pageInfo.endCursor)

\* deploymentId ?? null
NullishCoalesce(x) == x

\* databaseId of the p-th deployment of the environment, newest first
NodeId(p) == 1000 - p

RECURSIVE Flatten(_)
Flatten(ps) ==
    IF ps = <<>> THEN <<>> ELSE ps[1].nodes \o Flatten(Tail(ps))

\* every node returned so far, in the order returned
AllNodes == Flatten(pages)

Qualifying == SelectSeq(AllNodes, qualifies)

IsActive(d) == d.state = "ACTIVE"

Active == SelectSeq(AllNodes, IsActive)

\* the pages the remote may answer with, after `served` nodes and `n` pages
PageChoices(served, n) ==
    { [nodes |-> [i \in 1..Len(st) |->
                    [databaseId |-> NodeId(served + i), state |-> st[i]]],
       pageInfo |-> [hasNextPage |-> h, endCursor |-> e]] :
        st \in UNION {[1..k -> DeploymentStates] : k \in 0..(MaxDeployments - served)},
        h \in IF n + 1 >= MaxPages THEN {FALSE} ELSE BOOLEAN,
        e \in EndCursors }

\* what octokit.graphql may reject with
GraphqlErrors ==
    { [isError |-> TRUE, message |-> <<"Bad credentials">>],
      [isError |-> TRUE, message |-> <<"API rate limit exceeded">>] }

\* a mutant of Propagate: the error is replaced by a generic one
Propagate_Generic(e) == [isError |-> TRUE, message |-> <<"An unknown error occurred">>]

\* neither fetchDeployments nor fetchDeploymentStatus catches: the rejection
\* of the awaited request is the rejection of the call
Propagate(e) == e

\* while (hasNextPage) { if (cursor) ... }  and  return deploymentId ?? null
WhileTest ==
    /\ fpc = "while"
    /\ IF hasNextPage
         THEN /\ fpc' = IF Truthy(cursor) THEN "delay" ELSE "fetch"
              /\ ret' = ret
         ELSE /\ fpc' = "done"
              /\ ret' = NullishCoalesce(deploymentId)
    /\ delayed' = FALSE
    /\ UNCHANGED <<nth, deploymentId, cursor, hasNextPage, found, deployments,
                   filtered, idx, requests, pages>>
    /\ UNCHANGED <<rejection, fthrown>>
    /\ UNCHANGED <<runVars, parseVars, shaVars, procVars>>

\* await new Promise(resolve => setTimeout(resolve, 100))
Delay ==
    /\ fpc = "delay"
    /\ delayed' = TRUE
    /\ fpc' = "fetch"
    /\ UNCHANGED <<nth, deploymentId, cursor, hasNextPage, found, deployments,
                   filtered, idx, ret, requests, pages>>
    /\ UNCHANGED <<rejection, fthrown>>
    /\ UNCHANGED <<runVars, parseVars, shaVars, procVars>>

\* a mutant of Request: later pages are asked for with a page size of 100
Request_LargerLaterPages ==
    [first |-> IF requests = <<>> THEN PageSize ELSE 100, cursor |-> cursor,
     environment |-> environment, owner |-> owner, repo |-> repo,
     delayed |-> delayed]

\* the variables of the graphql request fetchDeployments issues
Request ==
    [first |-> PageSize, cursor |-> cursor, environment |-> environment,
     owner |-> owner, repo |-> repo, delayed |-> delayed]

\* await fetchDeployments(...) resolves with a page; the filter is evaluated
FetchDeployments ==
    /\ fpc = "fetch"
    /\ \E page \in PageChoices(Len(AllNodes), Len(pages)) :
         /\ deployments' = page
         /\ filtered' = SelectSeq(page.nodes, qualifies)
         /\ pages' = Append(pages, page)
    /\ requests' = Append(requests, Request)
    /\ idx' = 1
    /\ fpc' = "for"
    /\ UNCHANGED <<nth, deploymentId, cursor, hasNextPage, found, delayed, ret>>
    /\ UNCHANGED <<rejection, fthrown>>
    /\ UNCHANGED <<runVars, parseVars, shaVars, procVars>>

\* await fetchDeployments(...) rejects: the error leaves fetchDeploymentStatus
FetchFails ==
    /\ fpc = "fetch"
    /\ requests' = Append(requests, Request)
    /\ \E e \in GraphqlErrors :
         /\ rejection' = Some(e)
         /\ fthrown' = Some(Propagate(e))
    /\ fpc' = "failed"
    /\ UNCHANGED <<nth, deploymentId, cursor, hasNextPage, found, deployments,
                   filtered, idx, delayed, ret, pages>>
    /\ UNCHANGED <<runVars, parseVars, shaVars, procVars>>

\* one iteration of the for..of loop that does not break
ScanNode ==
    /\ fpc = "for"
    /\ idx <= Len(filtered)
    /\ ~BreakScan(found, nth)
    /\ deploymentId' = Some(filtered[idx].databaseId)
    /\ found' = found + 1
    /\ idx' = idx + 1
    /\ UNCHANGED <<nth, cursor, hasNextPage, deployments, filtered, fpc,
                   delayed, ret, requests, pages>>
    /\ UNCHANGED <<rejection, fthrown>>
    /\ UNCHANGED <<runVars, parseVars, shaVars, procVars>>

\* the for..of loop ends (exhausted or break); cursor and hasNextPage advance
NextPage ==
    /\ fpc = "for"
    /\ idx > Len(filtered) \/ BreakScan(found, nth)
    /\ cursor' = AdvanceCursor(cursor, deployments)
    /\ hasNextPage' = AdvanceHasNextPage(deployments)
    /\ fpc' = "while"
    /\ UNCHANGED <<nth, deploymentId, found, deployments, filtered, idx,
                   delayed, ret, requests, pages>>
    /\ UNCHANGED <<rejection, fthrown>>
    /\ UNCHANGED <<runVars, parseVars, shaVars, procVars>>

NextFetch ==
    \/ WhileTest
    \/ Delay
    \/ FetchDeployments
    \/ FetchFails
    \/ ScanNode
    \/ NextPage


\* ------------------------------------------------------------------------
\* fetchDeploymentStatus: properties
\* ------------------------------------------------------------------------

\* the qualifying nodes of the first page returned
QualifyingOnFirstPage == SelectSeq(pages[1].nodes, qualifies)

\* C1: when fetchDeploymentStatus returns for nth >= 1 and at least nth of the
\* nodes of all pages qualify, the value returned is the databaseId of the nth
\* qualifying node, counted in the order returned and across page boundaries.
C1_ReturnsNthQualifying ==
    (fpc = "done" /\ nth >= 1 /\ Len(Qualifying) >= nth)
        => ret = Some(Qualifying[nth].databaseId)

\* C1 witness: the third qualifying node is found on the second page, after
\* two qualifying nodes on the first, and its id is returned.
C1_Witness ==
    /\ fpc = "done"
    /\ nth = 3
    /\ Len(pages) = 2
    /\ Len(QualifyingOnFirstPage) = 2
    /\ Len(Qualifying) = 3
    /\ ret = Some(Qualifying[3].databaseId)

\* C2 (as claimed): when fewer than nth nodes of all pages qualify, also when
\* at least one does, fetchDeploymentStatus returns null.
C2_NullWhenFewerThanNth ==
    (fpc = "done" /\ nth >= 1 /\ Len(Qualifying) < nth) => ret = None

\* C3: the first request carries no cursor, the request for page k+1 carries
\* the endCursor returned with page k, and when the call returns it has
\* issued one request per page, up to and including the first page whose
\* hasNextPage is false.
C3_OneRequestPerPage ==
    /\ \A k \in 1..Len(requests) :
         requests[k].cursor =
            IF k = 1 THEN None ELSE Some(pages[k - 1].pageInfo.endCursor)
    /\ fpc = "done" =>
         /\ Len(requests) = Len(pages)
         /\ Len(pages) >= 1
         /\ \A k \in 1..Len(pages) :
              pages[k].pageInfo.hasNextPage <=> k < Len(pages)

\* C3 witness: two pages were requested, the first answered with a cursor
\* and hasNextPage, and the call has returned.
C3_Witness ==
    /\ fpc = "done"
    /\ Len(requests) = 2
    /\ pages[1].pageInfo.hasNextPage
    /\ pages[1].pageInfo.endCursor = "cursor"
    /\ requests[2].cursor = Some("cursor")

\* C4 (as claimed): with nth = 1 the value returned is the id of the first
\* node whose state is exactly "ACTIVE", and null when no node is "ACTIVE".
C4_MostRecentActive ==
    (fpc = "done" /\ nth = 1)
        => ret = IF Active = <<>> THEN None ELSE Some(Active[1].databaseId)

\* ------------------------------------------------------------------------
\* Release pipeline: strings are sequences of tokens.  A token is a
\* conventional type word, a punctuation character, a line feed or a word.
\* ------------------------------------------------------------------------

\* keys of conventionalNameToEmoji, in the order of the object literal
ConventionalNames ==
    <<"build", "chore", "ci", "docs", "feat", "fix", "perf", "refactor",
      "revert", "style", "test">>

\* the alternation (build|chore|...|test) of both regular expressions
ConventionalTypes == {ConventionalNames[i] : i \in DOMAIN ConventionalNames}

\* what `.` matches: anything but a line terminator
Dot(t) == t # "\n"

\* the longest prefix of s that `.*` matches
RECURSIVE DotRun(_)
DotRun(s) ==
    IF s = <<>> \/ ~Dot(Head(s)) THEN <<>> ELSE <<Head(s)>> \o DotRun(Tail(s))

\* s from position i on
From(s, i) == SubSeq(s, i, Len(s))

\* a mutant of SeparatorAt: nothing need follow the separator
SeparatorAt_EmptyDescription(m, i) ==
    /\ i + 1 <= Len(m)
    /\ m[i] = ":"
    /\ m[i + 1] = " "

\* whether ": .+" matches at position i of m
SeparatorAt(m, i) ==
    /\ i + 2 <= Len(m)
    /\ m[i] = ":"
    /\ m[i + 1] = " "
    /\ Dot(m[i + 2])

\* the positions j of a ")" that can close the group (\(.+\)) opened at
\* position 2, with ": .+" matching right after it
ScopeEnds(m) ==
    { j \in 4..Len(m) :
        /\ m[2] = "("
        /\ m[j] = ")"
        /\ \A k \in 3..(j - 1) : Dot(m[k])
        /\ SeparatorAt(m, j + 1) }

Max(S) == CHOOSE x \in S : \A y \in S : y <= x

\* /^(build|...|test)(\(.+\))?: (.+)/.exec(message): the greedy .+ of the
\* scope group takes the last ")" that lets the rest match; without a scope
\* group the separator follows the type
RegexExec(m) ==
    IF m = <<>> \/ m[1] \notin ConventionalTypes THEN None
    ELSE IF ScopeEnds(m) # {}
      THEN LET j == Max(ScopeEnds(m)) IN
           Some([g1 |-> m[1], g2 |-> Some(SubSeq(m, 2, j)),
                 g3 |-> DotRun(From(m, j + 3))])
    ELSE IF SeparatorAt(m, 2)
      THEN Some([g1 |-> m[1], g2 |-> None, g3 |-> DotRun(From(m, 4))])
    ELSE None

\* a mutant of conventionalCommit: every message passes the filter's test
conventionalCommit_Any(message) == TRUE

\* regex.test(message)
conventionalCommit(message) == RegexExec(message) # None

extractCommitMetadata(message) ==
    LET match == RegexExec(message) IN
    IF match = None THEN None
    ELSE Some([type |-> match[1].g1, scope |-> match[1].g2,
               description |-> match[1].g3])

\* String.prototype.split(sep) for a one-token separator
RECURSIVE Split(_, _)
Split(s, sep) ==
    IF \A i \in 1..Len(s) : s[i] # sep THEN <<s>>
    ELSE LET i == CHOOSE k \in 1..Len(s) :
                    s[k] = sep /\ \A l \in 1..(k - 1) : s[l] # sep
         IN <<SubSeq(s, 1, i - 1)>> \o Split(From(s, i + 1), sep)

\* Array.prototype.join(sep)
RECURSIVE Join(_, _)
Join(parts, sep) ==
    IF parts = <<>> THEN <<>>
    ELSE IF Len(parts) = 1 THEN parts[1]
    ELSE parts[1] \o sep \o Join(Tail(parts), sep)

\* shas.split('\n').map(commit => { const [sha, ...message] = commit.split(' ') ... })
ParseLog(shas) ==
    LET lines == Split(shas, "\n") IN
    [i \in 1..Len(lines) |->
        LET fields == Split(lines[i], " ") IN
        [sha |-> fields[1], message |-> Join(Tail(fields), <<" ">>)]]

\* ------------------------------------------------------------------------
\* Release pipeline: metadata, grouping and the release body
\* ------------------------------------------------------------------------

\* values of conventionalNameToEmoji, by name, in the order of ConventionalNames
ConventionalEmoji ==
    <<":construction_worker:", ":broom:", ":robot:", ":memo:", ":sparkles:",
      ":bug:", ":zap:", ":recycle:", ":rewind:", ":art:", ":white_check_mark:">>

\* conventionalNameToEmoji[type]
conventionalNameToEmoji(type) ==
    ConventionalEmoji[CHOOSE i \in DOMAIN ConventionalNames : ConventionalNames[i] = type]

commitToMetadata(commit) == extractCommitMetadata(commit.message)

\* commits.map(c => commitToMetadata(c)).filter(c => c !== null)
RECURSIVE commitsToMetadata(_)
commitsToMetadata(cs) ==
    IF cs = <<>> THEN <<>>
    ELSE LET md == commitToMetadata(Head(cs)) IN
         (IF md = None THEN <<>> ELSE <<md[1]>>) \o commitsToMetadata(Tail(cs))

\* a mutant of GroupStep: a type seen for the first time is put in front
GroupStep_NewestFirst(acc, metadata) ==
    IF \E i \in 1..Len(acc) : acc[i].type = metadata.type
      THEN [i \in 1..Len(acc) |->
              IF acc[i].type = metadata.type
                THEN [acc[i] EXCEPT !.list = Append(@, metadata)]
                ELSE acc[i]]
      ELSE <<[type |-> metadata.type, list |-> <<metadata>>]>> \o acc

\* the reducer of groupCommits; acc lists the properties of the object in
\* insertion order, as Object.entries enumerates them
GroupStep(acc, metadata) ==
    IF \E i \in 1..Len(acc) : acc[i].type = metadata.type
      THEN [i \in 1..Len(acc) |->
              IF acc[i].type = metadata.type
                THEN [acc[i] EXCEPT !.list = Append(@, metadata)]
                ELSE acc[i]]
      ELSE Append(acc, [type |-> metadata.type, list |-> <<metadata>>])

RECURSIVE Reduce(_, _)
Reduce(list, acc) ==
    IF list = <<>> THEN acc ELSE Reduce(Tail(list), GroupStep(acc, Head(list)))

groupCommits(list) == Reduce(list, <<>>)

\* a mutant of Section: the bullet lines are listed newest first
Section_BulletsReversed(entry) ==
    <<conventionalNameToEmoji(entry.type), " ", "**", entry.type, "**", "\n", "\n">>
    \o Join([i \in 1..Len(entry.list) |->
               <<"-", " ">> \o entry.list[Len(entry.list) + 1 - i].description],
            <<"\n">>)

\* `${emoji} **${type}**\n\n${metadataLines.join('\n')}`
Section(entry) ==
    <<conventionalNameToEmoji(entry.type), " ", "**", entry.type, "**", "\n", "\n">>
    \o Join([i \in 1..Len(entry.list) |-> <<"-", " ">> \o entry.list[i].description],
            <<"\n">>)

\* Object.entries(groupedMetadata).map(...).join('\n\n\n')
ReleaseBody(grouped) ==
    Join([i \in 1..Len(grouped) |-> Section(grouped[i])], <<"\n", "\n", "\n">>)

\* ------------------------------------------------------------------------
\* Release pipeline: inputs and what the externals may answer
\* ------------------------------------------------------------------------

workspace == "my-app"

\* `${prefix}-${format(date, 'yyyy-MM-dd-HH-mm')}`
releaseTitle == <<"my-app", "-", "2024-01-01-00-00">>

to == <<"HEAD">>

BranchInputs == {<<>>, <<"release">>}

FromInputs == {<<"HEAD~1">>, <<"HEAD">>}

\* the branch the working tree is on when run starts
InitialHead == <<"main">>

\* ids of the commits of the range, newest first
ShaNames == <<"s1", "s2", "s3", "s4">>

\* subjects of the commits the range query may print
LogMessages ==
    { <<"fix", ":", " ", "a">>,
      <<"feat", "(", "ui", ")", ":", " ", "b">>,
      <<"fix", ":", " ", "c">>,
      <<"a", " ", "b">> }

PrintedLogs ==
    { [i \in 1..Len(ms) |-> [sha |-> <<ShaNames[i]>>, message |-> ms[i]]] :
        ms \in UNION {[1..k -> LogMessages] : k \in 0..MaxCommits} }

\* what git log may print for the range: with from = to the query is limited
\* to the one commit at to
LogsFor(f, t) ==
    IF f = t THEN {cs \in PrintedLogs : Len(cs) = 1} ELSE PrintedLogs

\* what --pretty=format:%H %s writes to stdout for these commits
Stdout(cs) ==
    Join([i \in 1..Len(cs) |-> cs[i].sha \o <<" ">> \o cs[i].message], <<"\n">>)

\* const range = isSameSha ? `${to} -1` : `${from}..${to}`
Range(f, t) == IF f = t THEN t \o <<" -1">> ELSE f \o <<"..">> \o t

ExitCodes == {0, 1}

EmptyOutput == [text |-> "empty", monorepo |-> "undefined", packages |-> None]

\* what the dry run may write to stdout: nothing, or a JSON object whose
\* monorepo and packages properties may each be missing
TurboOutputs ==
    {EmptyOutput} \cup
    { [text |-> "json", monorepo |-> m, packages |-> pk] :
        m \in {"true", "false", "undefined"},
        pk \in {None, Some(<<workspace>>), Some(<<"other">>)} }

TurboResults ==
    {[code |-> 1, out |-> EmptyOutput]} \cup
    {[code |-> 0, out |-> o] : o \in TurboOutputs}

Err(msg) == [isError |-> TRUE, message |-> msg]

NonError == [isError |-> FALSE, message |-> <<"rejected with a string">>]

\* the releases the remote may answer createRelease with
Responses(title, body) ==
    { [html_url |-> <<"https://example.com/1">>, name |-> title, body |-> body],
      [html_url |-> <<"https://example.com/2">>, name |-> <<"test release">>,
       body |-> <<"test release body">>] }

CreateErrors == {Err(<<"Failed to create release">>), NonError}

\* ------------------------------------------------------------------------
\* Release pipeline: the decisions of processCommits and run
\* ------------------------------------------------------------------------

\* a mutant of AfterCheckout: the exit code of the checkout is ignored
AfterCheckout_Ignore(code) == "turbo"

\* if (checkout !== 0) continue
AfterCheckout(code) == IF code # 0 THEN "continue" ELSE "turbo"

\* if (exitCode !== 0) continue
AfterTurbo(code) == IF code # 0 THEN "continue" ELSE "parse"

\* JSON.parse(result) throws a SyntaxError on the empty string
ParseThrows(out) == out.text = "empty"

\* packages.includes(workspace), for packages present
Includes(packages, ws) ==
    packages # None /\ \E i \in 1..Len(packages[1]) : packages[1][i] = ws

\* (!isMonorepo || packages.includes(workspace)) throws a TypeError when the
\* right operand is evaluated with packages undefined
ConditionThrows(json) == json.monorepo = "true" /\ json.packages = None

\* a mutant of Relevant: the workspace must always be among the packages
Relevant_AlwaysPackages(json, ws, isConventionalCommit) ==
    Includes(json.packages, ws) /\ isConventionalCommit

\* (!isMonorepo || packages.includes(workspace)) && isConventionalCommit
Relevant(json, ws, isConventionalCommit) ==
    (json.monorepo # "true" \/ Includes(json.packages, ws)) /\ isConventionalCommit

\* a mutant of PushCommit: the commit is put in front
PushCommit_Front(list, commit) == <<commit>> \o list

\* relevantCommits.push(commit)
PushCommit(list, commit) == Append(list, commit)

\* a mutant of ReleaseOutputs: released is not set after the release
ReleaseOutputs_NoReleased(rel, title, body) ==
    << [name |-> "release-url", value |-> rel.html_url],
       [name |-> "release-title", value |-> rel.name],
       [name |-> "release-body", value |-> rel.body] >>

\* a mutant of ReleaseOutputs: the outputs repeat what was sent, not what the
\* remote returned
ReleaseOutputs_Sent(rel, title, body) ==
    << [name |-> "released", value |-> <<"true">>],
       [name |-> "release-url", value |-> rel.html_url],
       [name |-> "release-title", value |-> title],
       [name |-> "release-body", value |-> body] >>

\* the four core.setOutput calls after createRelease
ReleaseOutputs(rel, title, body) ==
    << [name |-> "released", value |-> <<"true">>],
       [name |-> "release-url", value |-> rel.html_url],
       [name |-> "release-title", value |-> rel.name],
       [name |-> "release-body", value |-> rel.body] >>

ReleasedFalse == [name |-> "released", value |-> <<"false">>]

\* if (relevantCommits.length === 0)
NoRelevantCommits(list) == Len(list) = 0

\* a mutant of FailureMessage: the message property is read off any value
FailureMessage_Message(error) == error.message

\* a mutant of FailureMessage: every failure is reported with the generic text
FailureMessage_Generic(error) == <<"An unknown error occurred">>

\* the argument of core.setFailed in the catch block
FailureMessage(error) ==
    IF error.isError THEN error.message ELSE <<"An unknown error occurred">>

\* a mutant of ChangedBranches: the original branch is never restored
ChangedBranches_Never(original) == FALSE

\* if (originalBranch !== '')
ChangedBranches(original) == original # <<>>

Outcome(checkout, invoked, code, out, threw) ==
    [checkout |-> checkout, invoked |-> invoked, code |-> code, out |-> out,
     threw |-> threw]

\* ------------------------------------------------------------------------
\* Release pipeline: run, with gitLog and processCommits inlined at their
\* suspension points
\* ------------------------------------------------------------------------

Exec(cmd, arg, code) == [cmd |-> cmd, arg |-> arg, code |-> code]

\* the core.getInput calls; one with required: true throws when not supplied
GetInputs ==
    /\ rpc = "start"
    /\ \E supplied \in BOOLEAN :
         IF supplied
           THEN /\ rpc' = IF branch # <<>> THEN "currentBranch" ELSE "gitLog"
                /\ thrown' = thrown
           ELSE /\ rpc' = "catch"
                /\ thrown' = Some(Err(<<"Input required and not supplied">>))
    /\ UNCHANGED <<branch, from, originalBranch, head, printed, commits,
                   relevantCommits, ci, outcomes, procState, outputs, failures,
                   warnings, createCalls, release, execLog, rejected>>
    /\ UNCHANGED <<fetchVars, parseVars, shaVars, procVars>>

\* originalBranch = await gitCurrentBranch()
GitCurrentBranch ==
    /\ rpc = "currentBranch"
    /\ \E code \in ExitCodes :
         /\ execLog' = Append(execLog, Exec("rev-parse", <<"HEAD">>, code))
         /\ IF code # 0
              THEN /\ thrown' = Some(Err(<<"Failed to get current branch">>))
                   /\ rpc' = "catch"
                   /\ originalBranch' = originalBranch
              ELSE /\ originalBranch' = head
                   /\ rpc' = "checkoutBranch"
                   /\ thrown' = thrown
    /\ UNCHANGED <<branch, from, head, printed, commits, relevantCommits, ci,
                   outcomes, procState, outputs, failures, warnings,
                   createCalls, release, rejected>>
    /\ UNCHANGED <<fetchVars, parseVars, shaVars, procVars>>

\* await gitCheckout(branch)
GitCheckoutBranch ==
    /\ rpc = "checkoutBranch"
    /\ \E code \in ExitCodes :
         /\ execLog' = Append(execLog, Exec("checkout", branch, code))
         /\ IF code # 0
              THEN /\ thrown' = Some(Err(<<"Failed to checkout branch ">> \o branch))
                   /\ rpc' = "catch"
                   /\ head' = head
              ELSE /\ head' = branch
                   /\ rpc' = "gitLog"
                   /\ thrown' = thrown
    /\ UNCHANGED <<branch, from, originalBranch, printed, commits,
                   relevantCommits, ci, outcomes, procState, outputs, failures,
                   warnings, createCalls, release, rejected>>
    /\ UNCHANGED <<fetchVars, parseVars, shaVars, procVars>>

\* const commits = await gitLog(from, to); processCommits is entered
GitLog ==
    /\ rpc = "gitLog"
    /\ \E code \in ExitCodes :
         /\ execLog' = Append(execLog, Exec("log", Range(from, to), code))
         /\ IF code # 0
              THEN /\ thrown' = Some(Err(<<"Failed to get git log">>))
                   /\ rpc' = "catch"
                   /\ UNCHANGED <<printed, commits, procState>>
              ELSE /\ \E cs \in LogsFor(from, to) :
                        /\ printed' = cs
                        /\ commits' = ParseLog(Stdout(cs))
                   /\ procState' = "running"
                   /\ rpc' = "checkout"
                   /\ thrown' = thrown
    /\ UNCHANGED <<branch, from, originalBranch, head, relevantCommits, ci,
                   outcomes, outputs, failures, warnings, createCalls, release,
                   rejected>>
    /\ UNCHANGED <<fetchVars, parseVars, shaVars, procVars>>

\* const checkout = await exec('git', ['checkout', commit.sha])
ProcessCheckout ==
    /\ rpc = "checkout"
    /\ ci <= Len(commits)
    /\ \E code \in ExitCodes :
         /\ execLog' = Append(execLog, Exec("checkout", commits[ci].sha, code))
         /\ head' = IF code = 0 THEN commits[ci].sha ELSE head
         /\ outcomes' = Append(outcomes, Outcome(code, FALSE, 0, EmptyOutput, FALSE))
         /\ IF AfterCheckout(code) = "continue"
              THEN ci' = ci + 1 /\ rpc' = "checkout"
              ELSE ci' = ci /\ rpc' = "turbo"
    /\ UNCHANGED <<branch, from, originalBranch, printed, commits,
                   relevantCommits, procState, thrown, outputs, failures,
                   warnings, createCalls, release, rejected>>
    /\ UNCHANGED <<fetchVars, parseVars, shaVars, procVars>>

\* const exitCode = await exec('npx', ['turbo', ...]) and the rest of the
\* loop body
ProcessTurbo ==
    /\ rpc = "turbo"
    /\ \E r \in TurboResults :
         LET commit == commits[ci]
             threw == AfterTurbo(r.code) = "parse"
                        /\ (ParseThrows(r.out) \/ ConditionThrows(r.out))
         IN
         /\ execLog' = Append(execLog, Exec("turbo", commit.sha, r.code))
         /\ outcomes' = [outcomes EXCEPT ![ci] =
                            Outcome(@.checkout, TRUE, r.code, r.out, threw)]
         /\ IF AfterTurbo(r.code) = "continue"
              THEN /\ ci' = ci + 1
                   /\ rpc' = "checkout"
                   /\ UNCHANGED <<relevantCommits, procState, thrown>>
            ELSE IF ParseThrows(r.out)
              THEN /\ thrown' = Some(Err(<<"Unexpected end of JSON input">>))
                   /\ procState' = "threw"
                   /\ rpc' = "catch"
                   /\ UNCHANGED <<relevantCommits, ci>>
            ELSE IF ConditionThrows(r.out)
              THEN /\ thrown' = Some(Err(<<"Cannot read properties of undefined">>))
                   /\ procState' = "threw"
                   /\ rpc' = "catch"
                   /\ UNCHANGED <<relevantCommits, ci>>
            ELSE /\ relevantCommits' =
                      IF Relevant(r.out, workspace, conventionalCommit(commit.message))
                        THEN PushCommit(relevantCommits, commit)
                        ELSE relevantCommits
                 /\ ci' = ci + 1
                 /\ rpc' = "checkout"
                 /\ UNCHANGED <<procState, thrown>>
    /\ UNCHANGED <<branch, from, originalBranch, head, printed, commits,
                   outputs, failures, warnings, createCalls, release, rejected>>
    /\ UNCHANGED <<fetchVars, parseVars, shaVars, procVars>>

\* return relevantCommits of processCommits, and in run the test of
\* relevantCommits.length with the early return
ProcessReturn ==
    /\ rpc = "checkout"
    /\ ci > Len(commits)
    /\ procState' = "returned"
    /\ IF NoRelevantCommits(relevantCommits)
         THEN /\ warnings' = Append(warnings, <<"No relevant commits found, exiting">>)
              /\ outputs' = Append(outputs, ReleasedFalse)
              /\ rpc' = "finally"
         ELSE /\ rpc' = "createRelease"
              /\ UNCHANGED <<warnings, outputs>>
    /\ UNCHANGED <<branch, from, originalBranch, head, printed, commits,
                   relevantCommits, ci, outcomes, thrown, failures,
                   createCalls, release, execLog, rejected>>
    /\ UNCHANGED <<fetchVars, parseVars, shaVars, procVars>>

\* the release body is built, createRelease is awaited and the outputs set
CreateRelease ==
    /\ rpc = "createRelease"
    /\ LET releaseBody ==
               ReleaseBody(groupCommits(commitsToMetadata(relevantCommits)))
       IN
       /\ \/ \E rel \in Responses(releaseTitle, releaseBody) :
               /\ createCalls' = Append(createCalls,
                      [title |-> releaseTitle, body |-> releaseBody, threw |-> None])
               /\ release' = Some(rel)
               /\ outputs' = outputs \o ReleaseOutputs(rel, releaseTitle, releaseBody)
               /\ rpc' = "finally"
               /\ thrown' = thrown
          \/ \E e \in CreateErrors :
               /\ createCalls' = Append(createCalls,
                      [title |-> releaseTitle, body |-> releaseBody, threw |-> Some(e)])
               /\ thrown' = Some(e)
               /\ rpc' = "catch"
               /\ UNCHANGED <<release, outputs>>
    /\ UNCHANGED <<branch, from, originalBranch, head, printed, commits,
                   relevantCommits, ci, outcomes, procState, failures,
                   warnings, execLog, rejected>>
    /\ UNCHANGED <<fetchVars, parseVars, shaVars, procVars>>

\* catch (error) { ... }
Catch ==
    /\ rpc = "catch"
    /\ outputs' = Append(outputs, ReleasedFalse)
    /\ failures' = Append(failures, FailureMessage(thrown[1]))
    /\ thrown' = None
    /\ rpc' = "finally"
    /\ UNCHANGED <<branch, from, originalBranch, head, printed, commits,
                   relevantCommits, ci, outcomes, procState, warnings,
                   createCalls, release, execLog, rejected>>
    /\ UNCHANGED <<fetchVars, parseVars, shaVars, procVars>>

\* finally { if (originalBranch !== '') await gitCheckout(originalBranch) }
Finally ==
    /\ rpc = "finally"
    /\ IF ChangedBranches(originalBranch)
         THEN \E code \in ExitCodes :
                /\ execLog' = Append(execLog, Exec("checkout", originalBranch, code))
                /\ head' = IF code = 0 THEN originalBranch ELSE head
                /\ rejected' = (code # 0)
                /\ thrown' = IF code # 0
                               THEN Some(Err(<<"Failed to checkout branch ">>
                                             \o originalBranch))
                               ELSE thrown
         ELSE UNCHANGED <<execLog, head, rejected, thrown>>
    /\ rpc' = "end"
    /\ UNCHANGED <<branch, from, originalBranch, printed, commits,
                   relevantCommits, ci, outcomes, procState, outputs, failures,
                   warnings, createCalls, release>>
    /\ UNCHANGED <<fetchVars, parseVars, shaVars, procVars>>

NextRun ==
    \/ GetInputs
    \/ GitCurrentBranch
    \/ GitCheckoutBranch
    \/ GitLog
    \/ ProcessCheckout
    \/ ProcessTurbo
    \/ ProcessReturn
    \/ CreateRelease
    \/ Catch
    \/ Finally

\* ------------------------------------------------------------------------
\* Specifications: each program on its own, the other one not started
\* ------------------------------------------------------------------------

\* fetchDeploymentStatus is entered with some nth; run is not started
InitFetch ==
    /\ nth \in NthValues
    /\ deploymentId = None
    /\ cursor = None
    /\ hasNextPage = TRUE
    /\ found = 0
    /\ deployments = None
    /\ filtered = <<>>
    /\ idx = 1
    /\ fpc = "while"
    /\ delayed = FALSE
    /\ ret = None
    /\ requests = <<>>
    /\ pages = <<>>
    /\ rejection = None
    /\ fthrown = None
    /\ branch = <<>>
    /\ from = to
    /\ rpc = "start"
    /\ originalBranch = <<>>
    /\ head = InitialHead
    /\ printed = <<>>
    /\ commits = <<>>
    /\ relevantCommits = <<>>
    /\ ci = 1
    /\ outcomes = <<>>
    /\ procState = "idle"
    /\ thrown = None
    /\ outputs = <<>>
    /\ failures = <<>>
    /\ warnings = <<>>
    /\ createCalls = <<>>
    /\ release = None
    /\ execLog = <<>>
    /\ rejected = FALSE
    /\ plist = <<>>
    /\ pextract = <<>>
    /\ pmeta = <<>>
    /\ pgroups = <<>>
    /\ pbody = <<>>
    /\ ppc = "start"
    /\ deploymentStatuses = None
    /\ contextSha = <<"s1">>
    /\ previousSha = None
    /\ shaThrown = None
    /\ spc = "list"
    /\ qcommits = <<>>
    /\ qi = 1
    /\ qpc = "loop"
    /\ inflight = <<>>
    /\ events = <<>>
    /\ qrelevant = <<>>
    /\ qthrown = None

\* run is entered with some inputs; fetchDeploymentStatus is not started
InitRun ==
    /\ branch \in BranchInputs
    /\ from \in FromInputs
    /\ rpc = "start"
    /\ originalBranch = <<>>
    /\ head = InitialHead
    /\ printed = <<>>
    /\ commits = <<>>
    /\ relevantCommits = <<>>
    /\ ci = 1
    /\ outcomes = <<>>
    /\ procState = "idle"
    /\ thrown = None
    /\ outputs = <<>>
    /\ failures = <<>>
    /\ warnings = <<>>
    /\ createCalls = <<>>
    /\ release = None
    /\ execLog = <<>>
    /\ rejected = FALSE
    /\ nth = 1
    /\ deploymentId = None
    /\ cursor = None
    /\ hasNextPage = TRUE
    /\ found = 0
    /\ deployments = None
    /\ filtered = <<>>
    /\ idx = 1
    /\ fpc = "while"
    /\ delayed = FALSE
    /\ ret = None
    /\ requests = <<>>
    /\ pages = <<>>
    /\ rejection = None
    /\ fthrown = None
    /\ plist = <<>>
    /\ pextract = <<>>
    /\ pmeta = <<>>
    /\ pgroups = <<>>
    /\ pbody = <<>>
    /\ ppc = "start"
    /\ deploymentStatuses = None
    /\ contextSha = <<"s1">>
    /\ previousSha = None
    /\ shaThrown = None
    /\ spc = "list"
    /\ qcommits = <<>>
    /\ qi = 1
    /\ qpc = "loop"
    /\ inflight = <<>>
    /\ events = <<>>
    /\ qrelevant = <<>>
    /\ qthrown = None

SpecFetch == InitFetch /\ [][NextFetch]_vars

SpecRun == InitRun /\ [][NextRun]_vars

\* ------------------------------------------------------------------------
\* Release pipeline: properties
\* ------------------------------------------------------------------------

InSeq(x, list) == \E k \in 1..Len(list) : list[k] = x

\* r lists elements of c at strictly increasing positions of c
IsSubSeq(r, c) ==
    \E f \in [1..Len(r) -> 1..Len(c)] :
        /\ \A k \in 1..Len(r) : r[k] = c[f[k]]
        /\ \A k \in 1..(Len(r) - 1) : f[k] < f[k + 1]

MatchesGrammar(message) == RegexExec(message) # None

PackageSet(out) ==
    IF out.packages = None THEN {}
    ELSE {out.packages[1][k] : k \in 1..Len(out.packages[1])}

\* the checkout of commit i succeeded and its dry run exited with 0 and
\* wrote a JSON object
QuerySucceeded(i) ==
    /\ outcomes[i].checkout = 0
    /\ outcomes[i].invoked
    /\ outcomes[i].code = 0
    /\ outcomes[i].out.text = "json"

OutputValues(name) ==
    {outputs[k].value : k \in {j \in 1..Len(outputs) : outputs[j].name = name}}

ReleaseOutputNames == {"release-url", "release-title", "release-body"}

\* C5: a commit whose checkout and dry run both succeeded is among the
\* relevant commits exactly when its message matches the grammar and the dry
\* run reports monorepo as not true or lists the workspace among its packages.
C5_IncludedIffConventionalAndAffected ==
    \A i \in 1..Len(outcomes) :
        QuerySucceeded(i) =>
            (InSeq(commits[i], relevantCommits) <=>
                /\ MatchesGrammar(commits[i].message)
                /\ \/ outcomes[i].out.monorepo # "true"
                   \/ workspace \in PackageSet(outcomes[i].out))

\* C5 witness: of two conventional commits of a monorepo, both queried with
\* success, the one whose packages list the workspace is included and the
\* other is not.
C5_Witness ==
    /\ procState = "returned"
    /\ Len(commits) = 2
    /\ QuerySucceeded(1) /\ QuerySucceeded(2)
    /\ MatchesGrammar(commits[1].message) /\ MatchesGrammar(commits[2].message)
    /\ outcomes[1].out.monorepo = "true" /\ outcomes[2].out.monorepo = "true"
    /\ PackageSet(outcomes[1].out) = {"other"}
    /\ PackageSet(outcomes[2].out) = {workspace}
    /\ relevantCommits = <<commits[2]>>

\* C6: the relevant commits are input commits, each at most once, in the
\* relative order of the input.
C6_ResultIsSubSequence == IsSubSeq(relevantCommits, commits)

\* C6 witness: processCommits returned both commits of a two-commit input.
C6_Witness ==
    /\ procState = "returned"
    /\ Len(commits) = 2
    /\ Len(relevantCommits) = 2

\* C7: a commit whose checkout exits non-zero is not included, the dry run is
\* not invoked for it, nothing is thrown for it, the loop goes on with the
\* next commit, and processCommits returns only after every commit was tried.
C7_CheckoutFailureSkipsCommit ==
    /\ \A i \in 1..Len(outcomes) :
         outcomes[i].checkout # 0 =>
            /\ ~outcomes[i].invoked
            /\ ~outcomes[i].threw
            /\ ~InSeq(commits[i], relevantCommits)
            /\ ~\E k \in 1..Len(execLog) :
                   execLog[k].cmd = "turbo" /\ execLog[k].arg = commits[i].sha
            /\ (procState = "running" /\ i = Len(outcomes)) =>
                   (rpc = "checkout" /\ ci = i + 1 /\ thrown = None)
    /\ procState = "returned" => Len(outcomes) = Len(commits)

\* C7 witness: the checkout of the first of two commits failed, the second
\* was checked out and queried and is the only relevant commit.
C7_Witness ==
    /\ procState = "returned"
    /\ Len(commits) = 2
    /\ outcomes[1].checkout # 0
    /\ outcomes[2].checkout = 0 /\ outcomes[2].invoked
    /\ relevantCommits = <<commits[2]>>

\* C8 (as claimed): a commit whose dry run exits non-zero or writes no output
\* is left out without anything being thrown for it.
C8_OracleFailureSkipsCommit ==
    \A i \in 1..Len(outcomes) :
        (outcomes[i].invoked
           /\ (outcomes[i].code # 0 \/ outcomes[i].out.text = "empty")) =>
            /\ ~outcomes[i].threw
            /\ ~InSeq(commits[i], relevantCommits)

\* C9 (as claimed): when processCommits returns no commit, run never calls
\* createRelease or setFailed, sets none of the release outputs, warns, and
\* ends without rejecting.
C9_NoReleaseWithoutRelevantCommits ==
    (procState = "returned" /\ relevantCommits = <<>>) =>
        /\ createCalls = <<>>
        /\ failures = <<>>
        /\ \A n \in ReleaseOutputNames : OutputValues(n) = {}
        /\ warnings # <<>>
        /\ ~rejected

\* C10: once createRelease has returned a release, release-url, release-title
\* and release-body are set to its html_url, name and body, released is set
\* to true only, and setFailed is never called.
C10_ReleaseOutputs ==
    release # None =>
        /\ OutputValues("release-url") = {release[1].html_url}
        /\ OutputValues("release-title") = {release[1].name}
        /\ OutputValues("release-body") = {release[1].body}
        /\ OutputValues("released") = {<<"true">>}
        /\ failures = <<>>

\* C10 witness: run has ended after a release whose name differs from the
\* title that was sent.
C10_Witness ==
    /\ rpc = "end"
    /\ release # None
    /\ release[1].name # releaseTitle
    /\ OutputValues("release-title") = {release[1].name}

GitLogThrew == \E k \in 1..Len(execLog) : execLog[k].cmd = "log" /\ execLog[k].code # 0

\* the createRelease calls that threw an Error
CreateThrewError ==
    {k \in 1..Len(createCalls) :
        createCalls[k].threw # None /\ createCalls[k].threw[1].isError}

NoReleaseOutputs == \A n \in ReleaseOutputNames : OutputValues(n) = {}

\* C11: after gitLog threw, processCommits and createRelease are never
\* called; once the catch block has run for an Error thrown by gitLog or by
\* createRelease, setFailed was called exactly once, with the message of that
\* error, and none of the release outputs is set.
C11_FailureReportedOnce ==
    /\ GitLogThrew =>
         /\ procState = "idle"
         /\ createCalls = <<>>
         /\ ~\E k \in 1..Len(execLog) : execLog[k].cmd = "turbo"
         /\ rpc \in {"finally", "end"} =>
              /\ failures = << <<"Failed to get git log">> >>
              /\ NoReleaseOutputs
    /\ \A k \in CreateThrewError :
         /\ Len(createCalls) = 1
         /\ rpc \in {"finally", "end"} =>
              /\ failures = <<createCalls[k].threw[1].message>>
              /\ NoReleaseOutputs

\* C11 witness: run has ended after createRelease threw an Error, with one
\* setFailed call carrying its message.
C11_Witness ==
    /\ rpc = "end"
    /\ CreateThrewError # {}
    /\ failures = << <<"Failed to create release">> >>

\* ------------------------------------------------------------------------
\* commitsToMetadata and groupCommits on their own
\* ------------------------------------------------------------------------

\* messages put together from a first word, a scope, a separator and a rest
MessagePrefixes == {<<"fix">>, <<"feat">>, <<"Fix">>, <<"wip">>, <<>>}

MessageScopes == {<<>>, <<"(", "ui", ")">>, <<"(", ")">>}

MessageSeparators == {<<":", " ">>, <<":">>, <<" ">>}

MessageRests ==
    { <<>>, <<"a">>, <<"a", " ", "b">>, <<"a", "\n", "b">>,
      <<"b", "(", "c", ")", ":", " ", "d">> }

ParseMessages ==
    { w \o sc \o sep \o rest :
        w \in MessagePrefixes, sc \in MessageScopes,
        sep \in MessageSeparators, rest \in MessageRests }

\* the messages of the lists of several commits
NoteMessages ==
    { <<"fix", ":", " ", "a">>,
      <<"feat", "(", "ui", ")", ":", " ", "b">>,
      <<"feat", ":", " ", "c">>,
      <<"a", " ", "b">> }

CommitLists ==
    { <<[sha |-> <<ShaNames[1]>>, message |-> m]>> : m \in ParseMessages } \cup
    { [i \in 1..Len(ms) |-> [sha |-> <<ShaNames[i]>>, message |-> ms[i]]] :
        ms \in UNION {[1..k -> NoteMessages] : k \in 0..MaxList} }

\* commitsToMetadata(commits)
ParseCommits ==
    /\ ppc = "start"
    /\ pextract' = [i \in 1..Len(plist) |-> commitToMetadata(plist[i])]
    /\ pmeta' = commitsToMetadata(plist)
    /\ ppc' = "parsed"
    /\ UNCHANGED <<plist, pgroups, pbody>>
    /\ UNCHANGED <<fetchVars, runVars, shaVars, procVars>>

\* groupCommits(metadataList)
GroupCommits ==
    /\ ppc = "parsed"
    /\ pgroups' = groupCommits(pmeta)
    /\ ppc' = "grouped"
    /\ UNCHANGED <<plist, pextract, pmeta, pbody>>
    /\ UNCHANGED <<fetchVars, runVars, shaVars, procVars>>

\* const releaseBody = Object.entries(groupedMetadata).map(...).join('\n\n\n')
BuildBody ==
    /\ ppc = "grouped"
    /\ pbody' = ReleaseBody(pgroups)
    /\ ppc' = "built"
    /\ UNCHANGED <<plist, pextract, pmeta, pgroups>>
    /\ UNCHANGED <<fetchVars, runVars, shaVars, procVars>>

NextParse ==
    \/ ParseCommits
    \/ GroupCommits
    \/ BuildBody

\* commitsToMetadata is called with some commits; nothing else is started
InitParse ==
    /\ plist \in CommitLists
    /\ pextract = <<>>
    /\ pmeta = <<>>
    /\ pgroups = <<>>
    /\ pbody = <<>>
    /\ ppc = "start"
    /\ deploymentStatuses = None
    /\ contextSha = <<"s1">>
    /\ previousSha = None
    /\ shaThrown = None
    /\ spc = "list"
    /\ qcommits = <<>>
    /\ qi = 1
    /\ qpc = "loop"
    /\ inflight = <<>>
    /\ events = <<>>
    /\ qrelevant = <<>>
    /\ qthrown = None
    /\ nth = 1
    /\ deploymentId = None
    /\ cursor = None
    /\ hasNextPage = TRUE
    /\ found = 0
    /\ deployments = None
    /\ filtered = <<>>
    /\ idx = 1
    /\ fpc = "while"
    /\ delayed = FALSE
    /\ ret = None
    /\ requests = <<>>
    /\ pages = <<>>
    /\ rejection = None
    /\ fthrown = None
    /\ branch = <<>>
    /\ from = to
    /\ rpc = "start"
    /\ originalBranch = <<>>
    /\ head = InitialHead
    /\ printed = <<>>
    /\ commits = <<>>
    /\ relevantCommits = <<>>
    /\ ci = 1
    /\ outcomes = <<>>
    /\ procState = "idle"
    /\ thrown = None
    /\ outputs = <<>>
    /\ failures = <<>>
    /\ warnings = <<>>
    /\ createCalls = <<>>
    /\ release = None
    /\ execLog = <<>>
    /\ rejected = FALSE

SpecParse == InitParse /\ [][NextParse]_vars

\* m reads type(scope): description with the scope closed at position j
OfScopedForm(m, j) ==
    /\ j \in 4..(Len(m) - 3)
    /\ m[1] \in ConventionalTypes
    /\ m[2] = "("
    /\ m[j] = ")"
    /\ m[j + 1] = ":"
    /\ m[j + 2] = " "

\* C12 (as claimed): for a message type(scope): description the metadata is
\* the type, the text inside the parentheses and everything after the ": "
\* separator to the end of the message.
C12_ScopedMessageRoundTrip ==
    ppc # "start" =>
        \A i \in 1..Len(plist) :
            \A j \in 1..Len(plist[i].message) :
                OfScopedForm(plist[i].message, j) =>
                    pextract[i] =
                        Some([type |-> plist[i].message[1],
                              scope |-> Some(SubSeq(plist[i].message, 3, j - 1)),
                              description |-> From(plist[i].message, j + 3)])

\* m has no known type as its first word, or no ": " with something after it
NotMatchingAtStart(m) ==
    \/ m = <<>>
    \/ m[1] \notin ConventionalTypes
    \/ ~\E i \in 1..(Len(m) - 2) : m[i] = ":" /\ m[i + 1] = " "

IsSome(x) == x # None

\* the metadata of the commits that matched, in the order of the commits
KeptMetadata ==
    LET kept == SelectSeq(pextract, IsSome)
    IN [k \in 1..Len(kept) |-> kept[k][1]]

\* C13: a message with an unknown or differently cased type, without the
\* ": " separator or with nothing after it yields null, and commitsToMetadata
\* returns the metadata of exactly the other commits, in their order.
C13_NonMatchingDropped ==
    ppc # "start" =>
        /\ \A i \in 1..Len(plist) :
             NotMatchingAtStart(plist[i].message) => pextract[i] = None
        /\ pmeta = KeptMetadata

\* C13 witness: of three commits the second does not match and is dropped,
\* the first and the third are kept in this order.
C13_Witness ==
    /\ ppc = "parsed"
    /\ Len(plist) = 3
    /\ pextract[1] # None /\ pextract[2] = None /\ pextract[3] # None
    /\ pmeta = <<pextract[1][1], pextract[3][1]>>

RECURSIVE FirstSeenTypes(_, _)
FirstSeenTypes(list, seen) ==
    IF list = <<>> THEN seen
    ELSE FirstSeenTypes(Tail(list),
                        IF \E k \in 1..Len(seen) : seen[k] = Head(list).type
                          THEN seen ELSE Append(seen, Head(list).type))

\* the entries of pmeta of one type, in their order
OfType(type) ==
    LET HasType(md) == md.type = type IN SelectSeq(pmeta, HasType)

\* C14: the keys of the grouping are the types in the order first seen, and
\* each group lists the entries of its type in their original order.
C14_GroupingPartitions ==
    ppc \in {"grouped", "built"} =>
        /\ [i \in 1..Len(pgroups) |-> pgroups[i].type] = FirstSeenTypes(pmeta, <<>>)
        /\ \A i \in 1..Len(pgroups) : pgroups[i].list = OfType(pgroups[i].type)

\* C14 witness: metadata of types fix, feat, feat is grouped under the keys
\* fix and feat, the second holding two entries.
C14_Witness ==
    /\ ppc = "grouped"
    /\ Len(pmeta) = 3
    /\ [i \in 1..Len(pgroups) |-> pgroups[i].type] = <<"fix", "feat">>
    /\ Len(pgroups[2].list) = 2
    /\ pgroups[2].list[1] # pgroups[2].list[2]

\* the lines of one section: header, empty line, one bullet per commit
SectionLines(type) ==
    <<<<conventionalNameToEmoji(type), " ", "**", type, "**">>, <<>>>>
    \o [i \in 1..Len(OfType(type)) |-> <<"-", " ">> \o OfType(type)[i].description]

\* the lines of the sections of the given types, two empty lines in between
RECURSIVE BodyLines(_)
BodyLines(types) ==
    IF types = <<>> THEN <<>>
    ELSE SectionLines(Head(types))
         \o (IF Tail(types) = <<>> THEN <<>>
             ELSE <<<<>>, <<>>>> \o BodyLines(Tail(types)))

\* C15: the release body has one section per type in the order the types
\* were first seen; a section is a header line of symbol and type, an empty
\* line and one bullet line per description of that type in the commits'
\* order; two empty lines separate consecutive sections.
C15_BodySections ==
    ppc = "built" =>
        IF pmeta = <<>> THEN pbody = <<>>
        ELSE Split(pbody, "\n") = BodyLines(FirstSeenTypes(pmeta, <<>>))

\* C15 witness: a body whose first section lists a fix and whose second
\* section lists two different features in the commits' order.
C15_Witness ==
    /\ ppc = "built"
    /\ Split(pbody, "\n") =
         << <<":bug:", " ", "**", "fix", "**">>, <<>>,
            <<"-", " ", "a">>,
            <<>>, <<>>,
            <<":sparkles:", " ", "**", "feat", "**">>, <<>>,
            <<"-", " ", "b">>, <<"-", " ", "c">> >>

\* C16 (as claimed): gitLog throws exactly when the range query exits with a
\* non-zero status; otherwise it returns the commits the query printed, in
\* that order, and exactly one commit when from equals to.
C16_GitLogContract ==
    \A k \in 1..Len(execLog) :
        execLog[k].cmd = "log" =>
            /\ execLog[k].code # 0 =>
                 /\ procState = "idle"
                 /\ commits = <<>>
                 /\ rpc = "catch" => thrown = Some(Err(<<"Failed to get git log">>))
            /\ execLog[k].code = 0 =>
                 /\ procState # "idle"
                 /\ commits = printed
                 /\ from = to => Len(commits) = 1

\* ------------------------------------------------------------------------
\* releaseSha on its own
\* ------------------------------------------------------------------------

DeploymentShas == {<<"s1">>, <<"s2">>, <<"s3">>}

\* the data listDeployments may resolve with, latest deployment first
Listings ==
    UNION {[1..k -> [sha : DeploymentShas]] : k \in 0..MaxListing}

ListErrors ==
    {Err(<<"could not fetch error">>), Err(<<"Not Found">>), NonError}

\* a mutant of LatestSha: the last deployment of the listing is taken
LatestSha_Last(data, sha) ==
    IF Len(data) > 0 THEN data[Len(data)].sha ELSE sha

\* deploymentStatuses.data.length > 0 ? deploymentStatuses.data[0].sha : context.sha
LatestSha(data, sha) ==
    IF Len(data) > 0 THEN data[1].sha ELSE sha

\* await octokit.rest.repos.listDeployments({owner, repo, environment})
ListDeployments ==
    /\ spc = "list"
    /\ LET request == [owner |-> owner, repo |-> repo, environment |-> environment]
       IN
       \/ \E data \in Listings :
            /\ deploymentStatuses' =
                 Some([request |-> request, ok |-> TRUE, data |-> data, error |-> None])
            /\ spc' = "listed"
            /\ UNCHANGED shaThrown
       \/ \E e \in ListErrors :
            /\ deploymentStatuses' =
                 Some([request |-> request, ok |-> FALSE, data |-> <<>>, error |-> Some(e)])
            /\ shaThrown' = Some(e)
            /\ spc' = "failed"
    /\ UNCHANGED <<contextSha, previousSha>>
    /\ UNCHANGED <<fetchVars, runVars, parseVars, procVars>>

\* return previousSha
ReturnSha ==
    /\ spc = "listed"
    /\ previousSha' = Some(LatestSha(deploymentStatuses[1].data, contextSha))
    /\ spc' = "done"
    /\ UNCHANGED <<deploymentStatuses, contextSha, shaThrown>>
    /\ UNCHANGED <<fetchVars, runVars, parseVars, procVars>>

NextSha ==
    \/ ListDeployments
    \/ ReturnSha

\* releaseSha is called in some context; nothing else is started
InitSha ==
    /\ deploymentStatuses = None
    /\ contextSha \in DeploymentShas \cup {<<"s4">>}
    /\ previousSha = None
    /\ shaThrown = None
    /\ spc = "list"
    /\ qcommits = <<>>
    /\ qi = 1
    /\ qpc = "loop"
    /\ inflight = <<>>
    /\ events = <<>>
    /\ qrelevant = <<>>
    /\ qthrown = None
    /\ plist = <<>>
    /\ pextract = <<>>
    /\ pmeta = <<>>
    /\ pgroups = <<>>
    /\ pbody = <<>>
    /\ ppc = "start"
    /\ nth = 1
    /\ deploymentId = None
    /\ cursor = None
    /\ hasNextPage = TRUE
    /\ found = 0
    /\ deployments = None
    /\ filtered = <<>>
    /\ idx = 1
    /\ fpc = "while"
    /\ delayed = FALSE
    /\ ret = None
    /\ requests = <<>>
    /\ pages = <<>>
    /\ rejection = None
    /\ fthrown = None
    /\ branch = <<>>
    /\ from = to
    /\ rpc = "start"
    /\ originalBranch = <<>>
    /\ head = InitialHead
    /\ printed = <<>>
    /\ commits = <<>>
    /\ relevantCommits = <<>>
    /\ ci = 1
    /\ outcomes = <<>>
    /\ procState = "idle"
    /\ thrown = None
    /\ outputs = <<>>
    /\ failures = <<>>
    /\ warnings = <<>>
    /\ createCalls = <<>>
    /\ release = None
    /\ execLog = <<>>
    /\ rejected = FALSE

SpecSha == InitSha /\ [][NextSha]_vars

\* C17: releaseSha returns the sha of the first deployment of a non-empty
\* listing for the environment, context.sha for an empty listing, and rejects
\* with the listing's own error when the listing request fails.
C17_ReleaseSha ==
    /\ deploymentStatuses # None =>
         deploymentStatuses[1].request.environment = environment
    /\ spc = "done" =>
         /\ shaThrown = None
         /\ deploymentStatuses[1].data # <<>> =>
              previousSha = Some(deploymentStatuses[1].data[1].sha)
         /\ deploymentStatuses[1].data = <<>> => previousSha = Some(contextSha)
    /\ spc = "failed" =>
         /\ previousSha = None
         /\ shaThrown = deploymentStatuses[1].error

\* C17 witness: a listing of several deployments with different shas, none
\* the context's; the first one's sha is returned.
C17_Witness ==
    /\ spc = "done"
    /\ Len(deploymentStatuses[1].data) >= 2
    /\ deploymentStatuses[1].data[1].sha # deploymentStatuses[1].data[2].sha
    /\ deploymentStatuses[1].data[1].sha # contextSha
    /\ previousSha = Some(deploymentStatuses[1].data[1].sha)

\* the scheduler keeps running the call: a pending step is eventually taken
SpecFetchFair == InitFetch /\ [][NextFetch]_vars /\ WF_vars(NextFetch)

\* C18: the loop is left exactly after the first page whose hasNextPage is
\* false (no page is requested after such a page, and the call returns only
\* after one), and when the remote keeps answering the call eventually ends.
C18_Terminates ==
    /\ [](fpc \in {"delay", "fetch"} =>
            \A k \in 1..Len(pages) : pages[k].pageInfo.hasNextPage)
    /\ [](fpc = "done" =>
            /\ Len(pages) >= 1
            /\ ~pages[Len(pages)].pageInfo.hasNextPage
            /\ \A k \in 1..(Len(pages) - 1) : pages[k].pageInfo.hasNextPage)
    /\ <>(fpc \in {"done", "failed"})

\* C18 witness: the call has returned after two pages, the first announcing
\* a next page and the second not.
C18_Witness ==
    /\ fpc = "done"
    /\ Len(pages) = 2
    /\ pages[1].pageInfo.hasNextPage
    /\ ~pages[2].pageInfo.hasNextPage

\* C19 (as claimed): at a qualifying node the scan of the page stops when
\* found equals nth - 1; otherwise the node's id is recorded and found is
\* incremented.
C19_StopsAtNthMinusOne ==
    [][(fpc = "for" /\ idx <= Len(filtered)) =>
          IF found = nth - 1
            THEN /\ fpc' = "while"
                 /\ deploymentId' = deploymentId
                 /\ found' = found
            ELSE /\ fpc' = "for"
                 /\ deploymentId' = Some(filtered[idx].databaseId)
                 /\ found' = found + 1]_vars

\* C19 (amended): at a qualifying node the scan of the page stops when found
\* equals nth; otherwise the node's id is recorded and found is incremented.
C19_StopsAtNth ==
    [][(fpc = "for" /\ idx <= Len(filtered)) =>
          IF found = nth
            THEN /\ fpc' = "while"
                 /\ deploymentId' = deploymentId
                 /\ found' = found
            ELSE /\ fpc' = "for"
                 /\ deploymentId' = Some(filtered[idx].databaseId)
                 /\ found' = found + 1]_vars

\* C19 witness: the scan of a page was left with a qualifying node still
\* unvisited, nth ids having been recorded.
C19_Witness ==
    /\ fpc = "while"
    /\ pages # <<>>
    /\ idx <= Len(filtered)
    /\ nth >= 1
    /\ found = nth
    /\ deploymentId = Some(filtered[idx - 1].databaseId)

\* C20 (as claimed): every page request but the first is preceded by the
\* delay and the first is not, whatever endCursor the remote returned.
C20_DelayBeforeLaterRequests ==
    \A k \in 1..Len(requests) : requests[k].delayed <=> k > 1

\* ------------------------------------------------------------------------
\* processCommits on its own, each exec call with its start and its end
\* ------------------------------------------------------------------------

Started(cmd, k) == [kind |-> "start", cmd |-> cmd, k |-> k, code |-> 0]

Ended(cmd, k, code) == [kind |-> "end", cmd |-> cmd, k |-> k, code |-> code]

\* the head of for (const commit of commits) and exec('git', ['checkout', commit.sha])
StartCheckout ==
    /\ qpc = "loop"
    /\ qi <= Len(qcommits)
    /\ inflight' = Append(inflight, [cmd |-> "checkout", k |-> qi])
    /\ events' = Append(events, Started("checkout", qi))
    /\ qpc' = "checkout"
    /\ UNCHANGED <<qcommits, qi, qrelevant, qthrown>>
    /\ UNCHANGED <<fetchVars, runVars, parseVars, shaVars>>

\* the awaited checkout settles; if (checkout !== 0) continue
CheckoutEnds ==
    /\ qpc = "checkout"
    /\ \E code \in ExitCodes :
         /\ events' = Append(events, Ended("checkout", qi, code))
         /\ IF AfterCheckout(code) = "continue"
              THEN qi' = qi + 1 /\ qpc' = "loop"
              ELSE qi' = qi /\ qpc' = "query"
    /\ inflight' = SelectSeq(inflight, LAMBDA op : op # [cmd |-> "checkout", k |-> qi])
    /\ UNCHANGED <<qcommits, qrelevant, qthrown>>
    /\ UNCHANGED <<fetchVars, runVars, parseVars, shaVars>>

\* exec('npx', ['turbo', 'run', 'build', ...])
StartTurbo ==
    /\ qpc = "query"
    /\ inflight' = Append(inflight, [cmd |-> "turbo", k |-> qi])
    /\ events' = Append(events, Started("turbo", qi))
    /\ qpc' = "turbo"
    /\ UNCHANGED <<qcommits, qi, qrelevant, qthrown>>
    /\ UNCHANGED <<fetchVars, runVars, parseVars, shaVars>>

\* the awaited dry run settles and the rest of the loop body runs
TurboEnds ==
    /\ qpc = "turbo"
    /\ \E r \in TurboResults :
         /\ events' = Append(events, Ended("turbo", qi, r.code))
         /\ IF AfterTurbo(r.code) = "continue"
              THEN /\ qi' = qi + 1
                   /\ qpc' = "loop"
                   /\ UNCHANGED <<qrelevant, qthrown>>
            ELSE IF ParseThrows(r.out)
              THEN /\ qthrown' = Some(Err(<<"Unexpected end of JSON input">>))
                   /\ qpc' = "threw"
                   /\ UNCHANGED <<qrelevant, qi>>
            ELSE IF ConditionThrows(r.out)
              THEN /\ qthrown' = Some(Err(<<"Cannot read properties of undefined">>))
                   /\ qpc' = "threw"
                   /\ UNCHANGED <<qrelevant, qi>>
            ELSE /\ qrelevant' =
                      IF Relevant(r.out, workspace,
                                  conventionalCommit(qcommits[qi].message))
                        THEN PushCommit(qrelevant, qcommits[qi])
                        ELSE qrelevant
                 /\ qi' = qi + 1
                 /\ qpc' = "loop"
                 /\ UNCHANGED qthrown
    /\ inflight' = SelectSeq(inflight, LAMBDA op : op # [cmd |-> "turbo", k |-> qi])
    /\ UNCHANGED qcommits
    /\ UNCHANGED <<fetchVars, runVars, parseVars, shaVars>>

\* return relevantCommits
ReturnRelevant ==
    /\ qpc = "loop"
    /\ qi > Len(qcommits)
    /\ qpc' = "returned"
    /\ UNCHANGED <<qcommits, qi, inflight, events, qrelevant, qthrown>>
    /\ UNCHANGED <<fetchVars, runVars, parseVars, shaVars>>

NextProcess ==
    \/ StartCheckout
    \/ CheckoutEnds
    \/ StartTurbo
    \/ TurboEnds
    \/ ReturnRelevant

\* processCommits is called with some commits; nothing else is started
InitProcess ==
    /\ qcommits \in PrintedLogs
    /\ qi = 1
    /\ qpc = "loop"
    /\ inflight = <<>>
    /\ events = <<>>
    /\ qrelevant = <<>>
    /\ qthrown = None
    /\ deploymentStatuses = None
    /\ contextSha = <<"s1">>
    /\ previousSha = None
    /\ shaThrown = None
    /\ spc = "list"
    /\ plist = <<>>
    /\ pextract = <<>>
    /\ pmeta = <<>>
    /\ pgroups = <<>>
    /\ pbody = <<>>
    /\ ppc = "start"
    /\ nth = 1
    /\ deploymentId = None
    /\ cursor = None
    /\ hasNextPage = TRUE
    /\ found = 0
    /\ deployments = None
    /\ filtered = <<>>
    /\ idx = 1
    /\ fpc = "while"
    /\ delayed = FALSE
    /\ ret = None
    /\ requests = <<>>
    /\ pages = <<>>
    /\ rejection = None
    /\ fthrown = None
    /\ branch = <<>>
    /\ from = to
    /\ rpc = "start"
    /\ originalBranch = <<>>
    /\ head = InitialHead
    /\ printed = <<>>
    /\ commits = <<>>
    /\ relevantCommits = <<>>
    /\ ci = 1
    /\ outcomes = <<>>
    /\ procState = "idle"
    /\ thrown = None
    /\ outputs = <<>>
    /\ failures = <<>>
    /\ warnings = <<>>
    /\ createCalls = <<>>
    /\ release = None
    /\ execLog = <<>>
    /\ rejected = FALSE

SpecProcess == InitProcess /\ [][NextProcess]_vars

\* the exec calls started before position e of events and not ended before it
PendingAt(e) ==
    {f \in 1..(e - 1) :
        /\ events[f].kind = "start"
        /\ ~\E g \in (f + 1)..(e - 1) :
              /\ events[g].kind = "end"
              /\ events[g].cmd = events[f].cmd
              /\ events[g].k = events[f].k}

\* C21: at most one exec call is in flight; the dry run for a commit starts
\* right after that commit's checkout ended with exit code 0; the checkout of
\* a later commit starts only when every call for the earlier commits ended.
C21_StrictlySequential ==
    /\ Len(inflight) <= 1
    /\ \A e \in 1..Len(events) :
         /\ events[e].kind = "start" => PendingAt(e) = {}
         /\ (events[e].kind = "start" /\ events[e].cmd = "turbo") =>
              /\ e > 1
              /\ events[e - 1] = Ended("checkout", events[e].k, 0)
         /\ \A f \in 1..(e - 1) : events[f].k <= events[e].k

\* C21 witness: two commits were handled, each checked out and queried, the
\* calls alternating start and end.
C21_Witness ==
    /\ qpc = "returned"
    /\ Len(events) = 8
    /\ [e \in 1..8 |-> events[e].kind] =
         <<"start", "end", "start", "end", "start", "end", "start", "end">>
    /\ [e \in 1..8 |-> events[e].cmd] =
         <<"checkout", "checkout", "turbo", "turbo",
           "checkout", "checkout", "turbo", "turbo">>
    /\ [e \in 1..8 |-> events[e].k] = <<1, 1, 1, 1, 2, 2, 2, 2>>

\* C22: when a page request fails the call rejects with that same error,
\* returns no deployment id, and issues no further request.
C22_RequestFailurePropagates ==
    /\ [](fpc = "failed" =>
            /\ rejection # None
            /\ fthrown = rejection
            /\ ret = None
            /\ Len(requests) = Len(pages) + 1)
    /\ [](fpc # "failed" => fthrown = None)
    /\ [][fpc = "failed" => (requests' = requests /\ fpc' = "failed")]_vars

\* C22 witness: the request for the second page failed and the call rejected
\* with the error of that request.
C22_Witness ==
    /\ fpc = "failed"
    /\ Len(pages) = 1
    /\ Len(requests) = 2
    /\ fthrown = Some([isError |-> TRUE, message |-> <<"API rate limit exceeded">>])

\* the exec calls that are checkouts, in order
Checkouts == SelectSeq(execLog, LAMBDA x : x.cmd = "checkout")

\* C23: when the original branch was recorded, the last checkout of a
\* finished run is a checkout of the original branch, on every exit path.
C23_OriginalBranchRestored ==
    (rpc = "end" /\ originalBranch # <<>>) =>
        /\ Checkouts # <<>>
        /\ Checkouts[Len(Checkouts)].arg = originalBranch
        /\ execLog[Len(execLog)] = Checkouts[Len(Checkouts)]

\* C23 witness: run switched to the branch, checked out a commit, failed in
\* createRelease and then checked out the original branch.
C23_Witness ==
    /\ rpc = "end"
    /\ originalBranch = InitialHead
    /\ failures # <<>>
    /\ createCalls # <<>>
    /\ Len(Checkouts) >= 3
    /\ Checkouts[1].arg = branch
    /\ Checkouts[Len(Checkouts)] = Exec("checkout", originalBranch, 0)
    /\ head = originalBranch

\* C24 (as claimed): the promise of run never rejects; every failure,
\* including those of the branch checkout and of the branch restoration, is
\* reported through setFailed.
C24_RunNeverRejects ==
    /\ ~rejected
    /\ (rpc = "end" /\ originalBranch # <<>> /\ execLog[Len(execLog)].code # 0) =>
         failures # <<>>

\* the createRelease calls that rejected with a value that is not an Error
CreateThrewNonError ==
    {k \in 1..Len(createCalls) :
        createCalls[k].threw # None /\ ~createCalls[k].threw[1].isError}

\* C25: a caught value that is not an Error is reported by one setFailed
\* call with the generic message, and released is set to false.
C25_NonErrorReportedGenerically ==
    (CreateThrewNonError # {} /\ rpc \in {"finally", "end"}) =>
        /\ failures = << <<"An unknown error occurred">> >>
        /\ outputs = <<ReleasedFalse>>

\* C25 witness: createRelease rejected with a string and the run ended with
\* the generic failure message.
C25_Witness ==
    /\ rpc = "end"
    /\ CreateThrewNonError = {1}
    /\ createCalls[1].threw = Some(NonError)
    /\ failures = << <<"An unknown error occurred">> >>
    /\ outputs = <<ReleasedFalse>>

\* C26 (as claimed): on a successful release run the first three outputs
\* set are release-url, release-title and release-body, in this order.
C26_ReleaseOutputsFirst ==
    (release # None /\ rpc \in {"finally", "end"}) =>
        /\ Len(outputs) >= 3
        /\ [i \in 1..3 |-> outputs[i].name] =
             <<"release-url", "release-title", "release-body">>

\* C27: every request of one call carries the same owner, repo and
\* environment and the page size 20; only the cursor differs between requests.
C27_OnlyCursorChanges ==
    \A k \in 1..Len(requests) :
        /\ requests[k].first = 20
        /\ requests[k].owner = owner
        /\ requests[k].repo = repo
        /\ requests[k].environment = environment
        /\ \A j \in 1..Len(requests) :
             [requests[j] EXCEPT !.cursor = None, !.delayed = FALSE] =
             [requests[k] EXCEPT !.cursor = None, !.delayed = FALSE]

\* C27 witness: two requests were issued that differ in the cursor only.
C27_Witness ==
    /\ Len(requests) = 2
    /\ requests[1].cursor = None
    /\ requests[2].cursor = Some("cursor")
    /\ requests[1].first = 20 /\ requests[2].first = 20

\* the qualifying nodes the for..of loops have come to so far
SeenQualifying ==
    IF fpc = "for" THEN Len(Qualifying) - Len(filtered) + (idx - 1)
    ELSE Len(Qualifying)

Min(a, b) == IF a <= b THEN a ELSE b

\* C28: for nth >= 1, found is the smaller of nth and the number of
\* qualifying nodes scanned so far; deploymentId is unset exactly when found
\* is 0 and otherwise is the id of the found-th qualifying node; once found
\* has reached nth, neither found nor deploymentId changes again.
C28_ScanInvariant ==
    /\ [](nth >= 1 =>
            /\ found = Min(nth, SeenQualifying)
            /\ (deploymentId = None) <=> (found = 0)
            /\ found > 0 => deploymentId = Some(Qualifying[found].databaseId))
    /\ [][(nth >= 1 /\ found = nth) =>
             (found' = found /\ deploymentId' = deploymentId)]_vars

\* C28 witness: with nth = 1 the first page held two qualifying nodes, a
\* second page held another, and deploymentId is still the id of the first.
C28_Witness ==
    /\ nth = 1
    /\ fpc = "done"
    /\ Len(pages) = 2
    /\ Len(QualifyingOnFirstPage) = 2
    /\ Len(Qualifying) = 3
    /\ found = 1
    /\ deploymentId = Some(Qualifying[1].databaseId)

\* C29 (as claimed): for nth < 1 fetchDeploymentStatus returns null, whatever
\* the pages hold.
C29_NullForNonPositiveNth ==
    (fpc = "done" /\ nth < 1) => ret = None

\* the values released was set to, in order
ReleasedValues ==
    LET set == SelectSeq(outputs, LAMBDA o : o.name = "released")
    IN [k \in 1..Len(set) |-> set[k].value]

\* C30: released is set at most once, and exactly once when run has ended;
\* it is true exactly when createRelease returned; released = true and a
\* setFailed call do not occur in the same run.
C30_ReleasedSetOnce ==
    /\ Len(ReleasedValues) <= 1
    /\ rpc = "end" => Len(ReleasedValues) = 1
    /\ (ReleasedValues = << <<"true">> >>) <=> (release # None)
    /\ ~(ReleasedValues = << <<"true">> >> /\ failures # <<>>)

\* C30 witness: a run that created a release has ended with released set
\* once, to true, and no setFailed call.
C30_Witness ==
    /\ rpc = "end"
    /\ release # None
    /\ ReleasedValues = << <<"true">> >>
    /\ failures = <<>>
    /\ Len(outputs) = 4

\* the bullet lines of a release body, in order
BulletLines(body) ==
    SelectSeq(Split(body, "\n"),
              LAMBDA line : Len(line) >= 2 /\ line[1] = "-" /\ line[2] = " ")

\* the bullet line each relevant commit is to have
ExpectedBullets ==
    {<<"-", " ">> \o extractCommitMetadata(relevantCommits[i].message)[1].description :
        i \in {j \in 1..Len(relevantCommits) :
                 extractCommitMetadata(relevantCommits[j].message) # None}}

\* C31: createRelease is called at most once, only after gitLog succeeded
\* and processCommits returned at least one relevant commit, and its body
\* has exactly one bullet line per relevant commit.
C31_OneReleaseOneBulletPerCommit ==
    /\ Len(createCalls) <= 1
    /\ \A k \in 1..Len(createCalls) :
         /\ \E e \in 1..Len(execLog) : execLog[e].cmd = "log" /\ execLog[e].code = 0
         /\ procState = "returned"
         /\ Len(relevantCommits) >= 1
         /\ Len(BulletLines(createCalls[k].body)) = Len(relevantCommits)
         /\ \A i \in 1..Len(relevantCommits) :
              extractCommitMetadata(relevantCommits[i].message) # None
         /\ {BulletLines(createCalls[k].body)[b] :
                b \in 1..Len(BulletLines(createCalls[k].body))} = ExpectedBullets

\* C31 witness: two relevant commits of different types, one createRelease
\* call whose body has a bullet line for each.
C31_Witness ==
    /\ rpc = "end"
    /\ Len(createCalls) = 1
    /\ Len(relevantCommits) = 2
    /\ relevantCommits[1].message # relevantCommits[2].message
    /\ Len(BulletLines(createCalls[1].body)) = 2

\* C32 (as claimed): after a successful range query gitLog has returned one
\* commit per commit printed, each with a non-empty sha; when nothing was
\* printed no checkout of a commit is attempted and the run ends on the
\* zero-relevant-commits path.
C32_OneCommitPerPrintedLine ==
    procState # "idle" =>
        /\ Len(commits) = Len(printed)
        /\ \A i \in 1..Len(commits) : commits[i].sha # <<>>
        /\ printed = <<>> =>
             /\ outcomes = <<>>
             /\ rpc \in {"finally", "end"} =>
                  warnings = << <<"No relevant commits found, exiting">> >>

\* C33 (as claimed): when processCommits checked out at least one commit, the
\* working tree is, after run has completed, on the ref it was on at the start.
C33_WorkingTreeRestored ==
    (rpc = "end" /\ \E i \in 1..Len(outcomes) : outcomes[i].checkout = 0)
        => head = InitialHead

====
